---- MODULE Spec2Model ----
(***************************************************************************)
(* Plant identification Telegram bot (ZenRasta/papabois).                  *)
(*                                                                         *)
(* Four variants of the same program are modelled:                         *)
(*   "main"          src/main.py          identification + knowledge base  *)
(*   "papaboisfinal" src/papaboisfinal.py ... + persona generation         *)
(*   "plantpersona"  src/plantpersona.py  identification + OpenRouter      *)
(*   "plantid"       src/plantid.py       command line tool, no bot        *)
(*                                                                         *)
(* Two specifications share the operators that model the functions:        *)
(*   Spec      the bot: updates dispatched to handlers that run on the     *)
(*             worker threads of the TeleBot thread pool;                  *)
(*   SpecCall  the functions identify_plant_from_path / identify_plant,    *)
(*             the response formatting and get_plant_persona applied to    *)
(*             inputs drawn from bounded sets.                             *)
(***************************************************************************)
EXTENDS Integers, Sequences, FiniteSets, TLC

\* ------------------------------------------------------------------ bounds

\* Users 1..MaxUsers send updates to the bot.
MaxUsers == 2

\* Distinct photos (image contents) 1..MaxPhotos a user may send.
MaxPhotos == 2

\* The identification service returns 0..MaxSuggestions ranked suggestions.
MaxSuggestions == 4

\* Number of plant species the service knows.
NumSpecies == 5

\* ---------------------------------------------------------- program constants

\* suggestions[:3]
TopN == 3

\* telebot.TeleBot(token, ...) is constructed with its defaults: threaded=True
\* and a pool of two worker threads that run the handlers.
NumThreads == 2

Users == 1..MaxUsers
Photos == 1..MaxPhotos
BotVariants == {"main", "papaboisfinal", "plantpersona"}
PersonaVariants == {"papaboisfinal", "plantpersona"}
KbVariants == {"main", "papaboisfinal"}
Variants == BotVariants \cup {"plantid"}

Min(a, b) == IF a < b THEN a ELSE b

\* ------------------------------------------------- the identification service

\* What the identification request can do: raise (transport or service error),
\* answer with an object without .result, without .result.classification, or
\* with a ranked list of n suggestions.
SvcFailures == {"raise", "no_result", "no_classification"}

SvcOutcomes ==
    [kind : SvcFailures, n : {0}] \cup [kind : {"ok"}, n : 0..MaxSuggestions]

\* The service is a classifier: the image decides the ranking. Rank k of photo
\* p is species SpeciesAt(p, k); distinct ranks of one answer are distinct
\* species, and probabilities (in 1/10000) decrease with the rank.
SpeciesAt(p, k) == ((p + k - 2) % NumSpecies) + 1

ProbabilityAt(p, k) == (9000 \div (k * k)) + p

Suggestions(p, n) ==
    [k \in 1..n |-> [name |-> SpeciesAt(p, k), probability |-> ProbabilityAt(p, k)]]

\* Outcome of the knowledge-base lookup of one candidate (api.search followed
\* by api.get_kb_detail).
KbOutcomes == {"search_raise", "no_entities", "detail_raise", "ok"}

\* Outcome of api.ask_question for the top candidate.
AskOutcomes == {"raise", "none", "ok"}

\* Outcome of the OpenRouter request (requests.post and the decoding of its
\* body).
GenOutcomes == {"exception", "non200", "bad_json", "missing_keys", "ok"}

GenFailures == GenOutcomes \ {"ok"}

DetailFields == {"common_names", "description"}

NoCalls ==
    [identify |-> 0, get_identification |-> 0, search |-> 0, kb_detail |-> 0,
     ask_question |-> 0, openrouter |-> 0]

\* ------------------------------------------------------------- result values

\* The value a call hands back: kind "error" is the dict {"error": message},
\* "success" is {"success": True, "results": [...]}, "none" is a return of
\* None and "raised" an exception that propagates to the caller. printed is
\* what the command line tool wrote to standard output, calls counts the
\* requests made to the external services.
ErrorResult(msg, calls) ==
    [kind |-> "error", error |-> msg, results |-> <<>>, printed |-> <<>>, calls |-> calls]

SuccessResult(results, calls) ==
    [kind |-> "success", error |-> "", results |-> results, printed |-> <<>>, calls |-> calls]

NoneResult(printed, calls) ==
    [kind |-> "none", error |-> "", results |-> <<>>, printed |-> printed, calls |-> calls]

RaisedResult(msg, printed, calls) ==
    [kind |-> "raised", error |-> msg, results |-> <<>>, printed |-> printed, calls |-> calls]

\* Sum of the per-candidate call counts.
RECURSIVE SumCalls(_, _)
SumCalls(infos, field) ==
    IF infos = <<>> THEN 0 ELSE Head(infos).calls[field] + SumCalls(Tail(infos), field)

\* Strips the call counts from the candidate records (the dict the code builds).
Plain(info) ==
    [name |-> info.name, confidence |-> info.confidence, keys |-> info.keys,
     details |-> info.details, healing_properties |-> info.healing_properties]

\* ------------------------------------------ identify_plant_from_path (the bots)

\* Text that get_openrouter_response returns for a healing-properties prompt
\* (plantpersona.py): it catches everything and returns a placeholder.
GetOpenrouterResponse(gen) ==
    CASE gen = "ok" -> "generated text"
      [] gen = "non200" -> "The spirits are quiet at the moment..."
      [] OTHER -> "Nature's wisdom is temporarily veiled..."

\* Whether the knowledge-base lookup of a candidate raised.
KbRaised(kb) == kb \in {"search_raise", "detail_raise"}

\* One turn of the loop of main.py / papaboisfinal.py over suggestions[:3]:
\* the candidate's dict, with the knowledge-base details and, for the top
\* match, the answer of api.ask_question, all inside one try block.
PlantInfoKb(s, k, kb, ask) ==
    LET askReached == k = 1 /\ ~KbRaised(kb)
        healed == askReached /\ ask = "ok"
    IN  [name |-> s.name,
         confidence |-> s.probability,
         keys |-> {"name", "confidence", "details"}
                    \cup (IF healed THEN {"healing_properties"} ELSE {}),
         details |-> IF kb = "ok" THEN DetailFields ELSE {},
         healing_properties |-> IF healed THEN "kb answer" ELSE "",
         calls |-> [NoCalls EXCEPT !.search = 1,
                                   !.kb_detail = IF kb \in {"detail_raise", "ok"} THEN 1 ELSE 0,
                                   !.ask_question = IF askReached THEN 1 ELSE 0]]

\* One turn of the loop of plantpersona.py: the details of the suggestion are
\* merged into the dict, the healing properties of the top match come from
\* OpenRouter.
PlantInfoOpenrouter(s, k, heal) ==
    [name |-> s.name,
     confidence |-> s.probability,
     keys |-> {"name", "confidence", "taxonomy", "common_names", "description"}
                \cup (IF k = 1 THEN {"healing_properties"} ELSE {}),
     details |-> {},
     healing_properties |-> IF k = 1 THEN GetOpenrouterResponse(heal) ELSE "",
     calls |-> [NoCalls EXCEPT !.openrouter = IF k = 1 THEN 1 ELSE 0]]

PlantInfo(v, s, k, ext) ==
    IF v = "plantpersona"
    THEN PlantInfoOpenrouter(s, k, ext.heal)
    ELSE PlantInfoKb(s, k, ext.kb[k], ext.ask)

\* Mutant of Truncate: the slice keeps the last three suggestions.
Truncate_LastThree(suggestions) ==
    SubSeq(suggestions, Len(suggestions) - Min(Len(suggestions), TopN) + 1, Len(suggestions))

\* suggestions[:3]
Truncate(suggestions) == SubSeq(suggestions, 1, Min(Len(suggestions), TopN))

\* The loop over suggestions[:3] and the success result.
ProcessResults(v, photo, ext) ==
    LET one == [NoCalls EXCEPT !.identify = 1]
        top == Truncate(Suggestions(photo, ext.svc.n))
        infos == [k \in 1..Len(top) |-> PlantInfo(v, top[k], k, ext)]
        calls == [f \in DOMAIN NoCalls |-> one[f] + SumCalls(infos, f)]
    IN  SuccessResult([k \in 1..Len(infos) |-> Plain(infos[k])], calls)

\* Mutant of IdentifyExisting: the request is made outside the try block, so
\* an exception of the service propagates.
IdentifyExisting_Unguarded(v, photo, ext) ==
    LET one == [NoCalls EXCEPT !.identify = 1]
    IN  CASE ext.svc.kind = "raise" -> RaisedResult("service error", <<>>, one)
          [] ext.svc.kind \in {"no_result", "no_classification"} ->
                ErrorResult("No classification results available", one)
          [] ext.svc.n = 0 -> ErrorResult("No plant matches found", one)
          [] OTHER -> ProcessResults(v, photo, ext)

\* The body of identify_plant_from_path after the is_file check: the request to
\* the identification service and the checks of its answer. photo is the image
\* the service is given, ext the outcomes of the external services. Every
\* exception ends in the function's except clause.
IdentifyExisting(v, photo, ext) ==
    LET one == [NoCalls EXCEPT !.identify = 1]
    IN  CASE ext.svc.kind = "raise" -> ErrorResult("service error", one)
          [] ext.svc.kind \in {"no_result", "no_classification"} ->
                ErrorResult("No classification results available", one)
          [] ext.svc.n = 0 -> ErrorResult("No plant matches found", one)
          [] OTHER -> ProcessResults(v, photo, ext)

\* Mutant of IdentifyPlantFromPath: the is_file check is missing.
IdentifyPlantFromPath_NoFileCheck(v, is_file, photo, ext) ==
    IdentifyExisting(v, photo, ext)

\* identify_plant_from_path(image_path) of the three bots. is_file is what
\* Path(image_path).is_file() answers; the FileNotFoundError it raises is
\* caught by the function's own except clause.
IdentifyPlantFromPath(v, is_file, photo, ext) ==
    IF ~is_file
    THEN ErrorResult("Image file not found", NoCalls)
    ELSE IdentifyExisting(v, photo, ext)

\* ----------------------------------------------------- identify_plant (plantid)

\* f"{probability:.1%}": the probability (in 1/10000) as a percentage with one
\* decimal, in tenths of a percent.
FormatPercent(bp) == (bp + 5) \div 10

\* What one turn of the printing loop of plantid.py writes for candidate idx.
PrintedEntry(s, idx, kb, ask) ==
    [idx |-> idx,
     name |-> s.name,
     confidence |-> FormatPercent(s.probability),
     details |-> IF kb = "ok" THEN DetailFields ELSE {},
     healing |-> idx = 1 /\ ~KbRaised(kb) /\ ask = "ok"]

\* identify_plant(image_path, api_key) of the command line tool: it submits the
\* image, fetches the identification, prints the matches and returns None; it
\* logs and re-raises every exception.
IdentifyPlant(is_file, photo, ext) ==
    LET submitted == [NoCalls EXCEPT !.identify = 1]
        fetched == [submitted EXCEPT !.get_identification = 1]
        top == Truncate(Suggestions(photo, ext.svc.n))
        infos == [k \in 1..Len(top) |-> PlantInfoKb(top[k], k, ext.kb[k], ext.ask)]
        calls == [f \in DOMAIN NoCalls |-> fetched[f] + SumCalls(infos, f)]
        printed == [k \in 1..Len(top) |-> PrintedEntry(top[k], k, ext.kb[k], ext.ask)]
    IN  CASE ~is_file -> RaisedResult("Image file not found", <<>>, NoCalls)
          [] ext.svc.kind = "raise" -> RaisedResult("service error", <<>>, submitted)
          [] ext.svc.kind \in {"no_result", "no_classification"} -> NoneResult(<<>>, fetched)
          [] ext.svc.n = 0 -> NoneResult(<<>>, fetched)
          [] OTHER -> NoneResult(printed, calls)

\* The identification step of variant v.
Identify(v, is_file, photo, ext) ==
    IF v = "plantid"
    THEN IdentifyPlant(is_file, photo, ext)
    ELSE IdentifyPlantFromPath(v, is_file, photo, ext)

\* ------------------------------------------------------------ response format

\* The lines handle_photo writes for candidate idx of the results. main.py adds
\* the common names, the description and, for idx 1, the healing properties;
\* the persona variants show rank, name and confidence only.
FormatEntry(v, idx, plant) ==
    [idx |-> idx,
     name |-> plant.name,
     confidence |-> FormatPercent(plant.confidence),
     common_names |-> v = "main" /\ "common_names" \in plant.details,
     description |-> v = "main" /\ "description" \in plant.details,
     healing |-> v = "main" /\ idx = 1 /\ "healing_properties" \in plant.keys]

\* enumerate(identification_result["results"], 1)
FormatResponse(v, results) ==
    [idx \in 1..Len(results) |-> FormatEntry(v, idx, results[idx])]

\* ------------------------------------------------------------ get_plant_persona

\* The fixed strings the persona functions return when generation fails.
Placeholders(v) ==
    IF v = "papaboisfinal"
    THEN {"I seem to be in deep meditation at the moment...",
          "I am currently communing with nature... Try again later"}
    ELSE {"The spirits are quiet at the moment...",
          "Nature's wisdom is temporarily veiled...",
          "The ancient wisdom eludes me at this moment..."}

\* Mutant of GetPlantPersonaGrok: the body of the answer is decoded outside the
\* try block.
GetPlantPersonaGrok_DecodeUnguarded(plant_info, gen) ==
    CASE ~({"name", "details"} \subseteq plant_info.keys) ->
            [raised |-> FALSE, requests |-> 0,
             text |-> "I am currently communing with nature... Try again later"]
      [] gen = "ok" -> [raised |-> FALSE, requests |-> 1, text |-> "generated text"]
      [] gen = "non200" ->
            [raised |-> FALSE, requests |-> 1,
             text |-> "I seem to be in deep meditation at the moment..."]
      [] gen \in {"bad_json", "missing_keys"} ->
            [raised |-> TRUE, requests |-> 1, text |-> ""]
      [] OTHER ->
            [raised |-> FALSE, requests |-> 1,
             text |-> "I am currently communing with nature... Try again later"]

\* get_plant_persona of papaboisfinal.py: the prompt is built and the request
\* made inside one try block.
GetPlantPersonaGrok(plant_info, gen) ==
    CASE ~({"name", "details"} \subseteq plant_info.keys) ->
            [raised |-> FALSE, requests |-> 0,
             text |-> "I am currently communing with nature... Try again later"]
      [] gen = "ok" -> [raised |-> FALSE, requests |-> 1, text |-> "generated text"]
      [] gen = "non200" ->
            [raised |-> FALSE, requests |-> 1,
             text |-> "I seem to be in deep meditation at the moment..."]
      [] OTHER ->
            [raised |-> FALSE, requests |-> 1,
             text |-> "I am currently communing with nature... Try again later"]

\* get_plant_persona of plantpersona.py: the prompt is built in a try block of
\* its own, the request is made by get_openrouter_response.
GetPlantPersonaOpenrouter(plant_info, gen) ==
    IF "name" \notin plant_info.keys
    THEN [raised |-> FALSE, requests |-> 0,
          text |-> "The ancient wisdom eludes me at this moment..."]
    ELSE [raised |-> FALSE, requests |-> 1, text |-> GetOpenrouterResponse(gen)]

GetPlantPersona(v, plant_info, gen) ==
    IF v = "papaboisfinal"
    THEN GetPlantPersonaGrok(plant_info, gen)
    ELSE GetPlantPersonaOpenrouter(plant_info, gen)

\* ---------------------------------------------------------------------- state

\* The users talk to the bot in their private chats: message.chat.id is the
\* id of the sender.
ChatOf(u) == u

\* The keys of the state storage: bot.set_state(user_id, state, chat_id).
Convs == {<<ChatOf(u), u>> : u \in Users}

\* message.content_type, with the two commands told apart from other text.
Kinds == {"/start", "/whois_plant", "text", "photo", "document", "audio", "video", "sticker"}

NoFile == 0

\* The count of the photos passed to the identification service is kept up
\* to this number.
MaxIdentified == 2

\* Content of a file that open() created and write() did not complete.
Truncated == -1

\* Every photo message carries an image of its own: the image of the photo
\* that worker thread w is handling.
PhotoOf(w) == w

\* What a temporary file can hold.
Contents == {PhotoOf(w) : w \in 1..NumThreads}

VARIABLES
    variant,    \* which bot is running
    state,      \* StateMemoryStorage: conversation -> "idle" | "awaiting_photo"
    files,      \* user -> content of temp_plant_<user>.jpg (NoFile: no such file)
    workers,    \* worker thread -> the handler invocation it runs
    identified, \* user -> photos passed to api.identify since the user's last /whois_plant
    call        \* SpecCall: the function call under test

vars == <<variant, state, files, workers, identified, call>>

\* A worker thread with no task.
FreeWorker ==
    [pc |-> "free", handler |-> "none", kind |-> "text", user |-> 0, chat |-> 0,
     photo |-> 0, was |-> "idle", has_path |-> FALSE, result |-> "none",
     log |-> <<>>, raised |-> FALSE]

NoExt ==
    [svc |-> [kind |-> "raise", n |-> 0], kb |-> <<>>, ask |-> "none", heal |-> "ok"]

NoPlant ==
    [name |-> 0, confidence |-> 0, keys |-> {}, details |-> {}, healing_properties |-> ""]

NoPersona == [raised |-> FALSE, requests |-> 0, text |-> ""]

NoCall ==
    [stage |-> "idle", v |-> "main", is_file |-> FALSE, photo |-> 0, ext |-> NoExt,
     result |-> ErrorResult("", NoCalls), response |-> <<>>,
     plant_info |-> NoPlant, gen |-> "ok", persona |-> NoPersona, message |-> <<>>]

BotInit ==
    /\ state = [cu \in Convs |-> "idle"]
    /\ files = [u \in Users |-> NoFile]
    /\ workers = [w \in 1..NumThreads |-> FreeWorker]
    /\ identified = [u \in Users |-> 0]

Init ==
    /\ variant \in BotVariants
    /\ BotInit
    /\ call = NoCall

\* ------------------------------------------------------- SpecCall: the functions

\* The outcomes of the external services a call of variant v can meet.
ExtFor(v) ==
    {[svc |-> svc, kb |-> kb, ask |-> ask, heal |-> heal] :
        svc \in SvcOutcomes,
        kb \in UNION {[1..m -> KbOutcomes] : m \in 0..TopN},
        ask \in AskOutcomes,
        heal \in GenOutcomes}

\* Only the outcomes the call gets to see are drawn.
Relevant(v, ext) ==
    LET m == Min(ext.svc.n, TopN)
        usesKb == v # "plantpersona" /\ m > 0
    IN  /\ Len(ext.kb) = (IF usesKb THEN m ELSE 0)
        /\ (~usesKb => ext.ask = "none")
        /\ (~(v = "plantpersona" /\ m > 0) => ext.heal = "ok")

CallIdentify ==
    /\ call.stage = "idle"
    /\ \E v \in Variants, is_file \in BOOLEAN, photo \in Photos :
         \E ext \in {e \in ExtFor(v) : Relevant(v, e)} :
            /\ is_file \/ ext = NoExt
            /\ call' = [call EXCEPT !.stage = "identified", !.v = v, !.is_file = is_file,
                                    !.photo = photo, !.ext = ext,
                                    !.result = Identify(v, is_file, photo, ext)]
    /\ UNCHANGED <<variant, state, files, workers, identified>>

\* handle_photo's formatting of a successful result.
CallFormat ==
    /\ call.stage = "identified"
    /\ call.v \in BotVariants
    /\ call.result.kind = "success"
    /\ call' = [call EXCEPT !.stage = "formatted",
                            !.response = FormatResponse(call.v, call.result.results)]
    /\ UNCHANGED <<variant, state, files, workers, identified>>

\* The text of the reply that carries the persona.
PersonaMessage(text) == <<"A message from your plant:", text>>

\* get_plant_persona applied to the top candidate, or to a record that lacks
\* some of its keys.
CallPersona ==
    /\ call.stage = "formatted"
    /\ call.v \in PersonaVariants
    /\ \E gen \in GenOutcomes, drop \in SUBSET {"name", "details"} :
         LET top == call.result.results[1]
             info == [top EXCEPT !.keys = @ \ drop]
             persona == GetPlantPersona(call.v, info, gen)
         IN  call' = [call EXCEPT !.stage = "persona", !.plant_info = info, !.gen = gen,
                                  !.persona = persona,
                                  !.message = IF persona.raised THEN <<>>
                                              ELSE PersonaMessage(persona.text)]
    /\ UNCHANGED <<variant, state, files, workers, identified>>

CallNext == CallIdentify \/ CallFormat \/ CallPersona

CallInit ==
    /\ variant = "main"
    /\ BotInit
    /\ call = NoCall

SpecCall == CallInit /\ [][CallNext]_vars

\* --------------------------------------------------------------- Spec: the bot

\* A call of the bot API (or of get_plant_persona) that a handler made: the
\* text, the names of the ranked entries it carries, and whether the call
\* returned (ok) or raised.
Sent(op, text, entries, ok) == [op |-> op, text |-> text, entries |-> entries, ok |-> ok]

ReplyTo(text, ok) == Sent("reply_to", text, <<>>, ok)

EditMessageText(text, entries, ok) == Sent("edit_message_text", text, entries, ok)

Welcome == "Welcome! This bot identifies plants from photos using Kindwise."
Prompt == "Please send me a photo of the plant you want to identify."
Rejection == "Please send a photo of the plant you want to identify."
Processing == "Processing your plant photo... Please wait..."
ResultsHeader == "Plant Identification Results"
Channel == "Let me channel the spirit of this plant..."
PersonaHeader == "A message from your plant:"
GenericError == "An error occurred"

\* Mutant of SelectHandler: handle_photo is registered without the state.
SelectHandler_PhotoUngated(kind, st) ==
    CASE kind = "/start" -> "cmd_start"
      [] kind = "/whois_plant" -> "cmd_whois_plant"
      [] kind = "photo" -> "handle_photo"
      [] kind \in {"text", "document", "audio", "video"} /\ st = "awaiting_photo" ->
            "handle_invalid_input"
      [] OTHER -> "none"

\* The message handlers in the order they are registered; the first whose
\* filters pass runs. st is the state of the sender's conversation.
SelectHandler(kind, st) ==
    CASE kind = "/start" -> "cmd_start"
      [] kind = "/whois_plant" -> "cmd_whois_plant"
      [] kind = "photo" /\ st = "awaiting_photo" -> "handle_photo"
      [] kind \in {"text", "document", "audio", "video"} /\ st = "awaiting_photo" ->
            "handle_invalid_input"
      [] OTHER -> "none"

\* The two worker threads run the same code. What an invocation did (the
\* handler chosen, the calls it made, whether it raised) is recorded for the
\* invocations of the observed thread only; the other thread keeps what its
\* code reads: pc, user, chat, photo and has_path.
Observed == 1

Note(w, task) ==
    IF w = Observed
    THEN task
    ELSE [FreeWorker EXCEPT !.pc = task.pc, !.user = task.user, !.chat = task.chat,
                            !.photo = task.photo,
                            !.has_path = task.pc = "exists" /\ task.has_path]

\* The handler has returned (or raised): the observed thread shows the
\* invocation until it takes its next task.
Return(w, task) ==
    IF w = Observed THEN [task EXCEPT !.pc = "returned"] ELSE FreeWorker

\* Worker w takes an update of the given kind from user u in chat c.
Task(handler, kind, u, c, photo) ==
    [FreeWorker EXCEPT !.handler = handler, !.kind = kind, !.user = u, !.chat = c,
                       !.photo = photo, !.was = state[<<c, u>>]]

\* The except clause of handle_photo: the generic reply, which may raise too.
ExceptClause(log, reply_ok) == log \o <<ReplyTo(GenericError, reply_ok)>>

\* An update for which no handler's filters pass is dropped.
Unhandled(w) ==
    /\ workers[w].pc = "free"
    /\ \E u \in Users, kind \in Kinds :
         LET c == ChatOf(u) IN
            /\ SelectHandler(kind, state[<<c, u>>]) = "none"
            /\ workers' = [workers EXCEPT ![w] = Return(w, Task("none", kind, u, c, 0))]
    /\ UNCHANGED <<variant, state, files, call, identified>>

\* cmd_start
CmdStart(w) ==
    /\ workers[w].pc = "free"
    /\ \E u \in Users, ok \in BOOLEAN :
         LET c == ChatOf(u) IN
            /\ SelectHandler("/start", state[<<c, u>>]) = "cmd_start"
            /\ workers' = [workers EXCEPT ![w] =
                    Return(w, [Task("cmd_start", "/start", u, c, 0) EXCEPT
                                  !.log = <<ReplyTo(Welcome, ok)>>, !.raised = ~ok])]
    /\ UNCHANGED <<variant, state, files, call, identified>>

\* Mutant of CmdWhoisPlant: the command toggles the state.
CmdWhoisPlant_Toggles(w) ==
    /\ workers[w].pc = "free"
    /\ \E u \in Users, ok \in BOOLEAN :
         LET c == ChatOf(u) IN
            /\ state' = [state EXCEPT ![<<c, u>>] =
                    IF @ = "idle" THEN "awaiting_photo" ELSE "idle"]
            /\ workers' = [workers EXCEPT ![w] =
                    Return(w, [Task("cmd_whois_plant", "/whois_plant", u, c, 0) EXCEPT
                                  !.log = <<ReplyTo(Prompt, ok)>>, !.raised = ~ok])]
            /\ identified' = [identified EXCEPT ![u] = 0]
    /\ UNCHANGED <<variant, files, call>>

\* cmd_whois_plant: set_state, then the prompt.
CmdWhoisPlant(w) ==
    /\ workers[w].pc = "free"
    /\ \E u \in Users, ok \in BOOLEAN :
         LET c == ChatOf(u) IN
            /\ SelectHandler("/whois_plant", state[<<c, u>>]) = "cmd_whois_plant"
            /\ state' = [state EXCEPT ![<<c, u>>] = "awaiting_photo"]
            /\ workers' = [workers EXCEPT ![w] =
                    Return(w, [Task("cmd_whois_plant", "/whois_plant", u, c, 0) EXCEPT
                                  !.log = <<ReplyTo(Prompt, ok)>>, !.raised = ~ok])]
            /\ identified' = [identified EXCEPT ![u] = 0]
    /\ UNCHANGED <<variant, files, call>>

\* Mutant of HandleInvalidInput: the handler clears the state after its reply.
HandleInvalidInput_Clears(w) ==
    /\ workers[w].pc = "free"
    /\ \E u \in Users, kind \in Kinds, ok \in BOOLEAN :
         LET c == ChatOf(u) IN
            /\ SelectHandler(kind, state[<<c, u>>]) = "handle_invalid_input"
            /\ state' = [state EXCEPT ![<<c, u>>] = "idle"]
            /\ workers' = [workers EXCEPT ![w] =
                    Return(w, [Task("handle_invalid_input", kind, u, c, 0) EXCEPT
                                  !.log = <<ReplyTo(Rejection, ok)>>, !.raised = ~ok])]
    /\ UNCHANGED <<variant, files, call, identified>>

\* Mutant of HandleInvalidInput: the handler answers text only.
HandleInvalidInput_TextOnly(w) ==
    /\ workers[w].pc = "free"
    /\ \E u \in Users, kind \in Kinds, ok \in BOOLEAN :
         LET c == ChatOf(u) IN
            /\ SelectHandler(kind, state[<<c, u>>]) = "handle_invalid_input"
            /\ workers' = [workers EXCEPT ![w] =
                    Return(w, [Task("handle_invalid_input", kind, u, c, 0) EXCEPT
                                  !.log = IF kind = "text" THEN <<ReplyTo(Rejection, ok)>> ELSE <<>>,
                                  !.raised = kind = "text" /\ ~ok])]
    /\ UNCHANGED <<variant, state, files, call, identified>>

\* handle_invalid_input
HandleInvalidInput(w) ==
    /\ workers[w].pc = "free"
    /\ \E u \in Users, kind \in Kinds, ok \in BOOLEAN :
         LET c == ChatOf(u) IN
            /\ SelectHandler(kind, state[<<c, u>>]) = "handle_invalid_input"
            /\ workers' = [workers EXCEPT ![w] =
                    Return(w, [Task("handle_invalid_input", kind, u, c, 0) EXCEPT
                                  !.log = <<ReplyTo(Rejection, ok)>>, !.raised = ~ok])]
    /\ UNCHANGED <<variant, state, files, call, identified>>

\* handle_photo is chosen for a photo: the state filter has passed.
HandlePhoto(w) ==
    /\ workers[w].pc = "free"
    /\ \E u \in Users :
         LET c == ChatOf(u) IN
            /\ SelectHandler("photo", state[<<c, u>>]) = "handle_photo"
            /\ workers' = [workers EXCEPT ![w] =
                    Note(w, [Task("handle_photo", "photo", u, c, PhotoOf(w)) EXCEPT
                                !.pc = "begin"])]
    /\ UNCHANGED <<variant, state, files, call, identified>>

\* handle_photo up to the write of the temporary file: the processing notice,
\* the download, open(photo_path, 'wb') and write. Any of them may raise, and
\* then the except clause runs.
SavePhoto(w) ==
    LET t == workers[w]
        notice(ok) == <<ReplyTo(Processing, ok)>>
        caught(has_path, log, reply_ok) ==
            Note(w, [t EXCEPT !.pc = "exists", !.has_path = has_path, !.raised = ~reply_ok,
                              !.log = ExceptClause(log, reply_ok)])
    IN  /\ t.pc = "begin"
        /\ \E outcome \in {"ok", "reply_raises", "download_raises", "open_raises", "write_raises"},
              reply_ok \in BOOLEAN :
             CASE outcome = "ok" ->
                    /\ reply_ok
                    /\ files' = [files EXCEPT ![t.user] = t.photo]
                    /\ workers' = [workers EXCEPT ![w] =
                            Note(w, [t EXCEPT !.pc = "is_file", !.has_path = TRUE,
                                              !.log = notice(TRUE)])]
               [] outcome = "reply_raises" ->
                    /\ files' = files
                    /\ workers' = [workers EXCEPT ![w] = caught(FALSE, notice(FALSE), reply_ok)]
               [] outcome = "download_raises" ->
                    /\ files' = files
                    /\ workers' = [workers EXCEPT ![w] = caught(FALSE, notice(TRUE), reply_ok)]
               [] outcome = "open_raises" ->
                    /\ files' = files
                    /\ workers' = [workers EXCEPT ![w] = caught(TRUE, notice(TRUE), reply_ok)]
               [] outcome = "write_raises" ->
                    /\ files' = [files EXCEPT ![t.user] = Truncated]
                    /\ workers' = [workers EXCEPT ![w] = caught(TRUE, notice(TRUE), reply_ok)]
        /\ UNCHANGED <<variant, state, call, identified>>

\* Mutant of Replies: the persona is requested before the results are shown.
Replies_PersonaFirst(v, result, persona) ==
    IF result.kind = "error"
    THEN <<EditMessageText(result.error, <<>>, TRUE)>>
    ELSE LET response == FormatResponse(v, result.results)
             names == [k \in 1..Len(response) |-> response[k].name]
             ranked == <<EditMessageText(ResultsHeader, names, TRUE)>>
         IN  IF v \in PersonaVariants
             THEN <<Sent("get_plant_persona", persona.text, <<result.results[1].name>>, TRUE)>>
                    \o ranked \o <<ReplyTo(Channel, TRUE), ReplyTo(PersonaHeader, TRUE)>>
             ELSE ranked

\* Mutant of Replies: no return after the error text has been shown, so the
\* formatting of the missing results raises and the except clause replies.
Replies_NoReturn(v, result, persona) ==
    IF result.kind = "error"
    THEN <<EditMessageText(result.error, <<>>, TRUE), ReplyTo(GenericError, TRUE)>>
    ELSE LET response == FormatResponse(v, result.results)
             names == [k \in 1..Len(response) |-> response[k].name]
             ranked == <<EditMessageText(ResultsHeader, names, TRUE)>>
         IN  IF v \in PersonaVariants
             THEN ranked \o <<ReplyTo(Channel, TRUE),
                              Sent("get_plant_persona", persona.text, <<result.results[1].name>>, TRUE),
                              ReplyTo(PersonaHeader, TRUE)>>
             ELSE ranked

\* The calls handle_photo makes once identify_plant_from_path has returned
\* result: the error text, or the ranked results and, in the persona variants,
\* the persona of the top candidate. persona is what get_plant_persona returns.
Replies(v, result, persona) ==
    IF result.kind = "error"
    THEN <<EditMessageText(result.error, <<>>, TRUE)>>
    ELSE LET response == FormatResponse(v, result.results)
             names == [k \in 1..Len(response) |-> response[k].name]
             ranked == <<EditMessageText(ResultsHeader, names, TRUE)>>
         IN  IF v \in PersonaVariants
             THEN ranked \o <<ReplyTo(Channel, TRUE),
                              Sent("get_plant_persona", persona.text, <<result.results[1].name>>, TRUE),
                              ReplyTo(PersonaHeader, TRUE)>>
             ELSE ranked

\* The calls made when call number fail of them raises (0: none does): the
\* calls before it, the failed call, and the except clause.
Deliver(calls, fail, reply_ok) ==
    IF fail = 0
    THEN calls
    ELSE ExceptClause(SubSeq(calls, 1, fail - 1) \o <<[calls[fail] EXCEPT !.ok = FALSE]>>, reply_ok)

\* get_plant_persona does not raise to handle_photo; the bot API calls may.
MayRaise(calls) == {0} \cup {i \in 1..Len(calls) : calls[i].op # "get_plant_persona"}

\* handle_photo from identification_result on, up to the finally clause.
\* photo_path has been assigned by then.
Respond(w, result, persona) ==
    LET t == workers[w]
        calls == Replies(variant, result, persona)
    IN  \E fail \in MayRaise(calls), reply_ok \in BOOLEAN :
            /\ fail = 0 => reply_ok
            /\ workers' = [workers EXCEPT ![w] =
                    Note(w, [t EXCEPT !.pc = "exists", !.result = result.kind,
                                      !.has_path = TRUE, !.raised = ~reply_ok,
                                      !.log = t.log \o Deliver(calls, fail, reply_ok)])]

\* Path(image_path).is_file() of identify_plant_from_path: without the file
\* the function returns its error result at once.
IsFile(w) ==
    LET t == workers[w]
    IN  /\ t.pc = "is_file"
        /\ IF files[t.user] = NoFile
           THEN Respond(w, IdentifyPlantFromPath(variant, FALSE, t.photo, NoExt), NoPersona)
           ELSE workers' = [workers EXCEPT ![w] = [t EXCEPT !.pc = "identify"]]
        /\ UNCHANGED <<variant, state, files, call, identified>>

\* The outcomes of the external services a handler is run against. The calls
\* a handler makes show whether the identification failed and which names it
\* ranked, not what the lookups answered nor how many suggestions were cut
\* (SpecCall draws those): the service fails, or answers with no suggestion
\* or with MaxSuggestions of them, and the lookups answer.
HandlerExt(v) ==
    {[svc |-> svc,
      kb |-> [k \in 1..(IF v \in KbVariants THEN Min(svc.n, TopN) ELSE 0) |-> "ok"],
      ask |-> IF v \in KbVariants THEN "ok" ELSE "none",
      heal |-> "ok"] :
        svc \in {x \in SvcOutcomes : x.n \in {0, MaxSuggestions}}}

\* The persona request of a handler succeeds or raises.
HandlerGen(v) == IF v \in PersonaVariants THEN {"ok", "exception"} ELSE {"ok"}

\* api.identify reads the file that is at photo_path now (a file that is
\* gone cannot be opened, and no image is passed on), then the rest of
\* identify_plant_from_path and of the try block of handle_photo runs. A file
\* that is gone or truncated makes the request fail.
ApiIdentify(w) ==
    LET t == workers[w]
        content == files[t.user]
    IN  /\ t.pc = "identify"
        /\ \E ext \in IF w = Observed THEN HandlerExt(variant) ELSE {NoExt},
              gen \in IF w = Observed THEN HandlerGen(variant) ELSE {"ok"} :
             /\ content \notin Contents => ext.svc.kind \in SvcFailures
             /\ LET result == IdentifyPlantFromPath(variant, TRUE, content, ext)
                    persona == IF result.kind = "success" /\ variant \in PersonaVariants
                               THEN GetPlantPersona(variant, result.results[1], gen)
                               ELSE NoPersona
                IN  Respond(w, result, persona)
        /\ identified' = [identified EXCEPT ![t.user] =
                IF content = NoFile THEN @ ELSE Min(@ + 1, MaxIdentified)]
        /\ UNCHANGED <<variant, state, files, call>>

\* finally: 'photo_path' in locals() and os.path.exists(photo_path)
CleanupExists(w) ==
    LET t == workers[w]
    IN  /\ t.pc = "exists"
        /\ workers' = [workers EXCEPT ![w] =
                [t EXCEPT !.pc = IF t.has_path /\ files[t.user] # NoFile
                                 THEN "remove" ELSE "delete_state"]]
        /\ UNCHANGED <<variant, state, files, call, identified>>

\* finally: os.remove(photo_path). It raises FileNotFoundError when the file
\* has been removed since os.path.exists; the exception leaves the handler.
Remove(w) ==
    LET t == workers[w]
    IN  /\ t.pc = "remove"
        /\ IF files[t.user] # NoFile
           THEN /\ files' = [files EXCEPT ![t.user] = NoFile]
                /\ workers' = [workers EXCEPT ![w] = [t EXCEPT !.pc = "delete_state"]]
           ELSE /\ files' = files
                /\ workers' = [workers EXCEPT ![w] = Return(w, [t EXCEPT !.raised = TRUE])]
        /\ UNCHANGED <<variant, state, call, identified>>

\* Mutant of DeleteState: the states of all conversations are deleted.
DeleteState_Everyone(w) ==
    LET t == workers[w]
    IN  /\ t.pc = "delete_state"
        /\ state' = [cu \in Convs |-> "idle"]
        /\ workers' = [workers EXCEPT ![w] = Return(w, t)]
        /\ UNCHANGED <<variant, files, call, identified>>

\* finally: bot.delete_state(message.from_user.id, message.chat.id)
DeleteState(w) ==
    LET t == workers[w]
    IN  /\ t.pc = "delete_state"
        /\ state' = [state EXCEPT ![<<t.chat, t.user>>] = "idle"]
        /\ workers' = [workers EXCEPT ![w] = Return(w, t)]
        /\ UNCHANGED <<variant, files, call, identified>>

\* The observed worker thread takes its next task.
Release(w) ==
    /\ workers[w].pc = "returned"
    /\ workers' = [workers EXCEPT ![w] = FreeWorker]
    /\ UNCHANGED <<variant, state, files, call, identified>>

Next ==
    \E w \in 1..NumThreads :
        \/ Unhandled(w)
        \/ CmdStart(w)
        \/ CmdWhoisPlant(w)
        \/ HandleInvalidInput(w)
        \/ HandlePhoto(w)
        \/ SavePhoto(w)
        \/ IsFile(w)
        \/ ApiIdentify(w)
        \/ CleanupExists(w)
        \/ Remove(w)
        \/ DeleteState(w)
        \/ Release(w)

Spec == Init /\ [][Next]_vars

\* ----------------------------------------------------------- claims of the bot

\* The conversation of the update a worker handles.
ConvOf(t) == <<t.chat, t.user>>

\* The step in which the observed thread takes an update and runs a handler
\* that returns in the same step (every handler but handle_photo).
Handles(kinds) ==
    /\ workers[Observed].pc = "free"
    /\ workers'[Observed].pc = "returned"
    /\ workers'[Observed].kind \in kinds

\* The step in which worker w leaves handle_photo: after delete_state, or with
\* the exception of os.remove.
LeavesHandlePhoto(w) ==
    /\ workers[w].pc \in {"remove", "delete_state"}
    /\ workers'[w].pc \in {"returned", "free"}

\* The one call a handler other than handle_photo makes.
RepliedWith(t, text) ==
    /\ Len(t.log) = 1
    /\ t.log[1].op = "reply_to"
    /\ t.log[1].text = text

\* C1: after every invocation of handle_photo, whatever path it took, the
\* state of the sender's conversation is idle and the temporary image file of
\* the sender does not exist.
C1_PhotoHandlingResets ==
    [][\A w \in 1..NumThreads :
          LeavesHandlePhoto(w) =>
              /\ state'[ConvOf(workers[w])] = "idle"
              /\ files'[workers[w].user] = NoFile]_vars

\* C2: when a user in awaiting_photo sends a text, document, audio or video
\* message, handle_invalid_input runs, the bot replies with the fixed
\* rejection, and the state storage is unchanged: the user is still in
\* awaiting_photo, so a later photo is still given to handle_photo.
C2_InvalidInputKeepsState ==
    [][LET t == workers'[Observed]
       IN  (Handles({"text", "document", "audio", "video"}) /\ t.was = "awaiting_photo")
              => /\ t.handler = "handle_invalid_input"
                 /\ RepliedWith(t, Rejection)
                 /\ state' = state
                 /\ state'[ConvOf(t)] = "awaiting_photo"
                 /\ SelectHandler("photo", state'[ConvOf(t)]) = "handle_photo"]_vars

C2_Witness ==
    /\ workers[Observed].pc = "returned"
    /\ workers[Observed].handler = "handle_invalid_input"
    /\ workers[Observed].kind = "document"
    /\ workers[Observed].log = <<ReplyTo(Rejection, TRUE)>>
    /\ state[ConvOf(workers[Observed])] = "awaiting_photo"

\* C3 as stated: once an invalid (non-photo) input of a user in awaiting_photo
\* has been handled, the state of that user is idle.
C3_InvalidInputClearsState ==
    [][LET t == workers'[Observed]
       IN  (Handles(Kinds) /\ t.handler = "handle_invalid_input")
              => state'[ConvOf(t)] = "idle"]_vars

\* C3 amended: a conversation goes from awaiting_photo to idle only by the
\* delete_state that ends a handle_photo invocation of that conversation; no
\* other handler (handle_invalid_input among them) clears the state.
C3_IdleOnlyAfterPhoto ==
    [][\A cu \in Convs :
          (state[cu] = "awaiting_photo" /\ state'[cu] = "idle")
              => \E w \in 1..NumThreads :
                    /\ workers[w].pc = "delete_state"
                    /\ ConvOf(workers[w]) = cu
                    /\ workers'[w].pc \in {"returned", "free"}]_vars

C3_Witness ==
    /\ workers[Observed].pc = "returned"
    /\ workers[Observed].handler = "handle_photo"
    /\ workers[Observed].was = "awaiting_photo"
    /\ ~workers[Observed].raised
    /\ state[ConvOf(workers[Observed])] = "idle"

\* C4: for a user in awaiting_photo, every message that is not a photo (and
\* not one of the two commands), whatever its content type, is answered with
\* the fixed rejection.
C4_EveryNonPhotoRejected ==
    LET t == workers[Observed]
    IN  (t.pc = "returned" /\ t.was = "awaiting_photo"
            /\ t.kind \notin {"photo", "/start", "/whois_plant"})
            => RepliedWith(t, Rejection)

\* C5: /whois_plant runs cmd_whois_plant whatever the state of the sender was
\* (idle or awaiting_photo): afterwards the sender is in awaiting_photo and the
\* photo prompt has been sent.
C5_WhoisPlantAwaitsPhoto ==
    [][LET t == workers'[Observed]
       IN  Handles({"/whois_plant"})
              => /\ t.handler = "cmd_whois_plant"
                 /\ RepliedWith(t, Prompt)
                 /\ state'[ConvOf(t)] = "awaiting_photo"
                 /\ SelectHandler("photo", state'[ConvOf(t)]) = "handle_photo"]_vars

C5_Witness ==
    /\ workers[Observed].pc = "returned"
    /\ workers[Observed].handler = "cmd_whois_plant"
    /\ workers[Observed].was = "awaiting_photo"
    /\ state[ConvOf(workers[Observed])] = "awaiting_photo"

\* The error texts of identify_plant_from_path.
ErrorTexts ==
    {"Image file not found", "No classification results available",
     "No plant matches found", "service error"}

\* C11: when identify_plant_from_path returns an error result to handle_photo,
\* the call after the processing notice replaces that notice by the error
\* text; nothing follows an accepted replacement, and in no case is a ranked
\* results message sent or a persona requested for that photo.
C11_ErrorSurfacedAlone ==
    LET t == workers[Observed]
    IN  (t.handler = "handle_photo" /\ t.result = "error")
            => /\ Len(t.log) >= 2
               /\ t.log[1] = ReplyTo(Processing, TRUE)
               /\ t.log[2].op = "edit_message_text"
               /\ t.log[2].text \in ErrorTexts
               /\ t.log[2].ok => Len(t.log) = 2
               /\ \A i \in 1..Len(t.log) :
                     /\ t.log[i].op # "get_plant_persona"
                     /\ t.log[i].text \notin {ResultsHeader, Channel, PersonaHeader}

C11_Witness ==
    /\ workers[Observed].pc = "returned"
    /\ workers[Observed].handler = "handle_photo"
    /\ workers[Observed].result = "error"
    /\ variant \in PersonaVariants
    /\ workers[Observed].log =
          <<ReplyTo(Processing, TRUE), EditMessageText("No plant matches found", <<>>, TRUE)>>

\* C12: no invocation of handle_photo lets an exception reach the framework,
\* and whenever one of its calls to the bot API has raised, the user has been
\* sent the generic failure message.
C12_NothingPropagates ==
    LET t == workers[Observed]
    IN  (t.pc = "returned" /\ t.handler = "handle_photo")
            => /\ ~t.raised
               /\ (\E i \in 1..Len(t.log) : ~t.log[i].ok)
                     => t.log[Len(t.log)] = ReplyTo(GenericError, TRUE)

\* The calls of get_plant_persona among the calls of an invocation.
PersonaCalls(t) == {i \in 1..Len(t.log) : t.log[i].op = "get_plant_persona"}

\* An invocation of handle_photo of a persona variant that has ended and whose
\* identification succeeded.
IdentifiedForPersona(t) ==
    /\ t.pc = "returned"
    /\ t.handler = "handle_photo"
    /\ t.result = "success"
    /\ variant \in PersonaVariants

\* C13 as stated: in the persona variants every successfully identified photo
\* causes exactly one persona request, for the candidate of rank 1, made after
\* the ranked results have been delivered.
C13_OnePersonaPerIdentifiedPhoto ==
    LET t == workers[Observed]
    IN  IdentifiedForPersona(t)
            => /\ Cardinality(PersonaCalls(t)) = 1
               /\ \A i \in PersonaCalls(t) :
                     /\ t.log[2] = EditMessageText(ResultsHeader, t.log[2].entries, TRUE)
                     /\ t.log[i].entries = <<t.log[2].entries[1]>>

\* C13 amended: a successfully identified photo causes at most one call of
\* get_plant_persona. The call is made exactly when Telegram has accepted the
\* ranked results and the channelling reply; it comes after both, names the
\* candidate of rank 1 and no other, and makes one generation request
\* whatever the generation service answers.
C13_OnePersonaAfterDelivery ==
    LET t == workers[Observed]
        delivered == /\ Len(t.log) >= 3
                     /\ t.log[2] = EditMessageText(ResultsHeader, t.log[2].entries, TRUE)
                     /\ t.log[3] = ReplyTo(Channel, TRUE)
    IN  IdentifiedForPersona(t)
            => /\ Cardinality(PersonaCalls(t)) <= 1
               /\ delivered <=> PersonaCalls(t) # {}
               /\ \A i \in PersonaCalls(t) :
                     /\ i = 4
                     /\ t.log[i].entries = <<t.log[2].entries[1]>>
               /\ \A ext \in HandlerExt(variant), gen \in GenOutcomes :
                     LET result == IdentifyPlantFromPath(variant, TRUE, t.photo, ext)
                     IN  result.kind = "success"
                            => GetPlantPersona(variant, result.results[1], gen).requests = 1

C13_Witness ==
    /\ IdentifiedForPersona(workers[Observed])
    /\ Len(workers[Observed].log) = 5
    /\ \A i \in 1..5 : workers[Observed].log[i].ok
    /\ PersonaCalls(workers[Observed]) = {4}
    /\ Len(workers[Observed].log[2].entries) = TopN

\* C14: from the moment an invocation of handle_photo has written its image
\* until its identification call has read it, the temporary file holds that
\* image: no other invocation overwrites, truncates or removes it.
C14_FileScopedToRequest ==
    \A w \in 1..NumThreads :
        workers[w].pc \in {"is_file", "identify"}
            => files[workers[w].user] = workers[w].photo

\* C15: between two consecutive /whois_plant commands of a user at most one
\* photo of that user is passed to the identification service, also when
\* several photos arrive before the handling of the first has ended.
C15_OneIdentificationPerCommand ==
    \A u \in Users : identified[u] <= 1

\* The user whose event worker w handles in a step that shows it: the step
\* takes the update, or it goes on with a handle_photo invocation.
ActsFor(w, u) ==
    /\ workers'[w] # workers[w]
    /\ workers[w].pc # "returned"
    /\ u = IF workers[w].pc = "free" THEN workers'[w].user ELSE workers[w].user

\* C16: a step of a handler changes the state of one conversation at most,
\* and a step taken for an event of user A (/start, /whois_plant, a photo, a
\* non-photo message) leaves the state of every other user as it was, in
\* every interleaving of the users' events.
C16_StatePerUser ==
    [][/\ \A cu, cv \in Convs :
             (state'[cu] # state[cu] /\ state'[cv] # state[cv]) => cu = cv
       /\ \A w \in 1..NumThreads, a \in Users :
             ActsFor(w, a)
                => \A cu \in Convs : cu[2] # a => state'[cu] = state[cu]]_vars

C16_Witness ==
    /\ workers[Observed].pc = "returned"
    /\ workers[Observed].handler = "handle_photo"
    /\ workers[Observed].user = 2
    /\ state[<<ChatOf(2), 2>>] = "idle"
    /\ state[<<ChatOf(1), 1>>] = "awaiting_photo"

\* C17: a photo of a user whose state is idle runs no handler: no call of the
\* identification service, no temporary file, no reply and no change of
\* state. An invocation of handle_photo starts only for a photo of a user
\* who is in awaiting_photo, and only such an invocation writes the temporary
\* file or calls the identification service.
C17_IdentificationGated ==
    [][LET t == workers'[Observed]
       IN  /\ (workers[Observed].pc = "free" /\ t.pc # "free"
                  /\ t.kind = "photo" /\ t.was = "idle")
                 => /\ t.pc = "returned"
                    /\ t.handler = "none"
                    /\ t.log = <<>>
                    /\ UNCHANGED <<state, files, identified>>
           /\ \A w \in 1..NumThreads :
                 (workers[w].pc = "free" /\ workers'[w].pc \notin {"free", "returned"})
                    => /\ workers'[w].pc = "begin"
                       /\ state[ConvOf(workers'[w])] = "awaiting_photo"
           /\ \A u \in Users :
                 (files'[u] \notin {files[u], NoFile} \/ identified'[u] > identified[u])
                    => \E w \in 1..NumThreads :
                          /\ workers[w].pc \in {"begin", "identify"}
                          /\ workers[w].user = u]_vars

C17_Witness ==
    /\ workers[Observed].pc = "returned"
    /\ workers[Observed].kind = "photo"
    /\ workers[Observed].handler = "none"
    /\ workers[Observed].was = "idle"
    /\ identified[workers[Observed].user] = 1
    /\ files[workers[Observed].user] = NoFile

\* ------------------------------------------------------ claims of the functions

\* The calls a result reports, summed over the external services.
TotalCalls(result) ==
    result.calls.identify + result.calls.get_identification + result.calls.search
        + result.calls.kb_detail + result.calls.ask_question + result.calls.openrouter

\* Whether the identification step was given a failure: no file, an exception
\* of the service, an answer without classification, or no suggestion.
IdentifyFails(c) ==
    \/ ~c.is_file
    \/ c.ext.svc.kind \in SvcFailures
    \/ c.ext.svc.n = 0

\* C6: for an image path that names no existing file, identify_plant_from_path
\* returns an error result and makes no call to any external service.
C6_MissingFileNoExternalCall ==
    (call.stage = "identified" /\ call.v \in BotVariants /\ ~call.is_file)
        => (call.result.kind = "error" /\ TotalCalls(call.result) = 0)

C6_Witness ==
    /\ call.stage = "identified"
    /\ call.v = "papaboisfinal"
    /\ ~call.is_file
    /\ call.result.error = "Image file not found"

\* The uniform result of the identification step: every failure is an error
\* result, nothing is raised, a success carries a non-empty candidate list,
\* and the identification service is called at most once.
UniformResult(c) ==
    /\ c.result.kind \in {"error", "success"}
    /\ (IdentifyFails(c) <=> c.result.kind = "error")
    /\ (c.result.kind = "error" => c.result.error # "" /\ c.result.results = <<>>)
    /\ (c.result.kind = "success" => Len(c.result.results) >= 1)
    /\ c.result.calls.identify + c.result.calls.get_identification <= 1

\* C7 as stated: in every variant the identification step maps every failure
\* to an error result, never raises, returns an error or a success with a
\* non-empty candidate list, and calls the identification service at most once.
C7_UniformErrorEveryVariant ==
    call.stage = "identified" => UniformResult(call)

\* C7 amended: identify_plant_from_path of the three bots does so; identify_plant
\* of the command line tool returns None (after a failure it has printed
\* nothing) and re-raises a missing file and an exception of the service.
C7_UniformErrorInBots ==
    call.stage = "identified" =>
        IF call.v \in BotVariants
        THEN UniformResult(call)
        ELSE /\ call.result.kind \in {"none", "raised"}
             /\ (call.result.kind = "raised"
                    <=> (~call.is_file \/ call.ext.svc.kind = "raise"))
             /\ (IdentifyFails(call) => call.result.printed = <<>>)

C7_Witness ==
    /\ call.stage = "identified"
    /\ call.v = "plantpersona"
    /\ call.is_file
    /\ call.ext.svc.kind = "raise"
    /\ call.result.kind = "error"
    /\ call.result.calls.identify = 1

\* C8: if the knowledge-base lookup (search or detail fetch) fails for a
\* candidate, the identification succeeds and the candidate's entry carries
\* its name and confidence; only the detail fields are omitted: for the top
\* candidate the healing properties are still asked for and, when answered,
\* part of the entry.
C8_KbFailureOmitsOnlyDetails ==
    (call.stage = "identified" /\ call.v \in KbVariants /\ call.is_file
        /\ call.ext.svc.kind = "ok" /\ call.ext.svc.n >= 1)
        => /\ call.result.kind = "success"
           /\ \A k \in 1..Len(call.ext.kb) :
                call.ext.kb[k] # "ok" =>
                    /\ k <= Len(call.result.results)
                    /\ call.result.results[k].name = SpeciesAt(call.photo, k)
                    /\ call.result.results[k].confidence = ProbabilityAt(call.photo, k)
                    /\ call.result.results[k].details = {}
                    /\ (k = 1 => call.result.calls.ask_question = 1)
                    /\ (k = 1 /\ call.ext.ask = "ok"
                            => "healing_properties" \in call.result.results[k].keys)

\* Whether the persona step was given a failure: the request fails, or the
\* candidate record lacks a key the prompt reads.
PersonaFails(c) ==
    \/ c.gen \in GenFailures
    \/ "name" \notin c.plant_info.keys
    \/ (c.v = "papaboisfinal" /\ "details" \notin c.plant_info.keys)

\* C9: if the persona generation fails (transport exception, non-200 status,
\* malformed body, missing fields of the candidate record), get_plant_persona
\* returns one of the fixed placeholder strings, does not raise, the persona is
\* not empty and the persona message carries it.
C9_PersonaFailureGivesPlaceholder ==
    (call.stage = "persona" /\ PersonaFails(call))
        => /\ ~call.persona.raised
           /\ call.persona.text \in Placeholders(call.v)
           /\ call.persona.text # ""
           /\ call.message = <<"A message from your plant:", call.persona.text>>

C9_Witness ==
    /\ call.stage = "persona"
    /\ call.v = "papaboisfinal"
    /\ call.gen = "bad_json"
    /\ call.plant_info.keys = {"name", "confidence", "details"}
    /\ call.persona.text = "I am currently communing with nature... Try again later"

\* C10: for a successful identification with n >= 1 suggestions, the result
\* list and the formatted response hold exactly min(n, 3) entries, numbered
\* 1..min(n, 3), entry k being the k-th suggestion of the service with its
\* confidence as a percentage (to a tenth of a percent).
C10_RankedEntries ==
    (call.stage = "formatted") =>
        LET n == call.ext.svc.n
            m == IF n < 3 THEN n ELSE 3
        IN  /\ n >= 1
            /\ Len(call.result.results) = m
            /\ Len(call.response) = m
            /\ \A k \in 1..m :
                 /\ call.result.results[k].name = SpeciesAt(call.photo, k)
                 /\ call.response[k].idx = k
                 /\ call.response[k].name = SpeciesAt(call.photo, k)
                 /\ 10 * call.response[k].confidence - ProbabilityAt(call.photo, k) \in -5..5

C10_Witness ==
    /\ call.stage = "formatted"
    /\ call.ext.svc.n = 4
    /\ Len(call.response) = 3
    /\ call.response[3].name = SpeciesAt(call.photo, 3)

====
